---- MODULE Spec2Model ----
(***************************************************************************)
(* Dogs-Life-Lern-App: the quiz session of components/QuizGame.tsx and the *)
(* CSV import of components/AdminDashboard.tsx.                            *)
(*                                                                         *)
(* SpecQuiz is one mounted QuizGame: its React state, the interval of the  *)
(* timer effect with the answers its callback closed over, and the calls   *)
(* it makes on its props onFinish and onExit.                              *)
(*                                                                         *)
(* SpecCsv is one mounted AdminDashboard importing a CSV file: the file's  *)
(* text (a sequence of characters), the FileReader reads and bulk inserts  *)
(* in flight, and the alerts shown.                                        *)
(***************************************************************************)
EXTENDS Integers, Sequences, FiniteSets, TLC

\* ------------------------------------------------------------------ bounds
MaxQuestions == 2
MaxTime == 2
MaxRows == 2
MaxUploads == 2
MaxOptions == 3
MaxCorrect == 3
MaxTimerIds == 2

VARIABLES
    \* QuizGame props
    questions,          \* Question[]: records [id, question_type, all_answers]
    timeLimit,          \* seconds, <= 0 for no limit
    \* QuizGame state (useState)
    currentIdx,
    answers,            \* UserAnswers: question id -> string[]; keys appear when set
    showConfirmModal,
    timeLeft,
    \* the timer effect
    timerRunning,       \* an interval created by the effect is live
    timerAnswers,       \* the answers object the live interval's callback closed over
    timerId,            \* which interval is the latest one created, modulo MaxTimerIds
    \* the component and its collaborators
    mounted,
    finishCalls,        \* the calls of onFinish: <<[answers, by]>>
    exitCalls,          \* the number of calls of onExit
    \* history of the last option clicks, for the claims about two clicks in a
    \* row, and whether the last click was the modal's cancel button
    hist,
    \* AdminDashboard: the chosen file and the import
    csvText,            \* the file's text, a sequence of characters
    uploads,            \* change events of the file input so far
    reading,            \* FileReader reads in flight
    inserting,          \* bulkInsertQuestions calls awaited: <<[accepted, skipped]>>
    fetching,           \* fetchQuestions calls awaited by loadQuestions
    loading,
    alerts,             \* the alerts shown: <<[kind, message, imported, skipped]>>
    bulkInsertCalls,    \* the batches handed to bulkInsertQuestions
    importLog,          \* per run of reader.onload: [accepted, skipped]
    \* AdminDashboard: the add/edit modal
    isModalOpen,
    editingQuestion     \* [question_type, all_answers, correct_answers] or NoQuestion

quizVars == <<questions, timeLimit, currentIdx, answers, showConfirmModal, timeLeft,
              timerRunning, timerAnswers, timerId, mounted, finishCalls, exitCalls, hist>>

csvVars == <<csvText, uploads, reading, inserting, fetching, loading, alerts,
             bulkInsertCalls, importLog>>

editorVars == <<isModalOpen, editingQuestion>>

vars == <<quizVars, csvVars, editorVars>>

\* ----------------------------------------------------------------- helpers
Min(a, b) == IF a < b THEN a ELSE b
Max(a, b) == IF a > b THEN a ELSE b
Range(s) == {s[i] : i \in DOMAIN s}

\* Array.prototype.includes
Includes(s, x) == \E i \in DOMAIN s : s[i] = x

\* currentSelected.filter(item => item !== option)
RECURSIVE FilterOut(_, _)
FilterOut(s, x) ==
    IF s = <<>> THEN <<>>
    ELSE IF Head(s) = x THEN FilterOut(Tail(s), x)
         ELSE <<Head(s)>> \o FilterOut(Tail(s), x)

\* ------------------------------------------------------- the session's input
QuestionTypes == {"single_choice", "multiple_choice"}

\* The options of a question by its type. all_answers may repeat a string
\* (duplicates are permitted): the multiple_choice questions here do.
AllAnswers(t) == IF t = "single_choice" THEN <<"a", "b">> ELSE <<"a", "b", "a">>

\* The question lists a session is constructed with: 1..MaxQuestions questions
\* with distinct ids (ids are assigned by storage).
QuestionLists ==
    UNION {
        { [i \in 1..n |-> [id |-> 10 + i, question_type |-> t[i], all_answers |-> AllAnswers(t[i])]]
            : t \in [1..n -> QuestionTypes] }
        : n \in 1..MaxQuestions }

TimeLimits == (-1)..MaxTime

\* ------------------------------------------------------- derived per render
currentQuestion == questions[currentIdx + 1]
isLastQuestion == currentIdx = Len(questions) - 1

\* answers[id] || []
Selected(a, id) == IF id \in DOMAIN a THEN a[id] ELSE <<>>

isCurrentAnswered == Len(Selected(answers, currentQuestion.id)) > 0
isAllAnsweredOnlyCurrent == isCurrentAnswered
isAllAnswered == \A i \in DOMAIN questions : Len(Selected(answers, questions[i].id)) > 0

\* {...prev, [id]: newSelected}
WithAnswerWithoutSpread(prev, id, newSelected) == [k \in {id} |-> newSelected]
WithAnswer(prev, id, newSelected) ==
    [k \in DOMAIN prev \cup {id} |-> IF k = id THEN newSelected ELSE prev[k]]

\* handleOptionToggle's newSelected
NewSelectedNoRemove(q, currentSelected, option) ==
    IF q.question_type = "single_choice"
    THEN <<option>>
    ELSE Append(currentSelected, option)
NewSelectedSingleAppends(q, currentSelected, option) ==
    IF Includes(currentSelected, option)
    THEN FilterOut(currentSelected, option)
    ELSE Append(currentSelected, option)
NewSelected(q, currentSelected, option) ==
    IF q.question_type = "single_choice"
    THEN <<option>>
    ELSE IF Includes(currentSelected, option)
         THEN FilterOut(currentSelected, option)
         ELSE Append(currentSelected, option)

\* setCurrentIdx updaters of the navigation buttons
PrevIdx(prev) == Max(0, prev - 1)
NextIdxNoClamp(prev) == prev + 1
NextIdx(prev) == Min(Len(questions) - 1, prev + 1)

\* ------------------------------------------------------------ timer effect
\* The effect's dependency list holds answers: every setAnswers installs a new
\* object, so the effect is cleaned up and run again, and the new interval's
\* callback closes over the answers of that render.
EffectAnswersStale(newAnswers, oldCaptured) == oldCaptured
EffectAnswers(newAnswers, oldCaptured) == newAnswers

\* if (timeLimit <= 0) return; otherwise setInterval
EffectStartsTimerNonZero == timeLimit # 0
EffectStartsTimer == timeLimit > 0

\* const timerId = setInterval(...): every run of the effect creates another
\* interval; ids are kept modulo MaxTimerIds, which tells an interval from the
\* one it replaced
NextTimerId(id) == (id + 1) % MaxTimerIds

\* return () => clearInterval(timerId): whether the interval is live afterwards
EffectCleanupMissing(running) == running
EffectCleanup(running) == FALSE

\* The parent's handlers for onFinish and onExit end the session: the session
\* is destroyed when it ends (finish or exit), so QuizGame is unmounted.
DestroyedOnFinish == TRUE
DestroyedOnExit == TRUE

\* ------------------------------------------------------------------- Init
\* useState<Partial<Question> | null>(null)
NoQuestion == [null |-> TRUE]

NoHist ==
    [last |-> <<>>, before1 |-> <<>>, twice |-> FALSE, before2 |-> <<>>,
     cancelled |-> FALSE]

InitQuiz ==
    /\ questions \in QuestionLists
    /\ timeLimit \in TimeLimits
    /\ currentIdx = 0
    /\ answers = <<>>
    /\ showConfirmModal = FALSE
    /\ timeLeft = timeLimit
    /\ timerRunning = EffectStartsTimer
    /\ timerAnswers = <<>>
    /\ timerId = 0
    /\ mounted = TRUE
    /\ finishCalls = <<>>
    /\ exitCalls = 0
    /\ hist = NoHist
    /\ csvText = <<>>
    /\ uploads = 0
    /\ reading = 0
    /\ inserting = <<>>
    /\ fetching = 0
    /\ loading = FALSE
    /\ alerts = <<>>
    /\ bulkInsertCalls = <<>>
    /\ importLog = <<>>
    /\ isModalOpen = FALSE
    /\ editingQuestion = NoQuestion

\* ---------------------------------------------------------------- actions
\* onFinish(a), then what the parent does with the component; running is whether
\* the interval is live when onFinish is called
OnFinish(a, by, running) ==
    /\ finishCalls' = Append(finishCalls, [answers |-> a, by |-> by])
    /\ mounted' = (mounted /\ ~DestroyedOnFinish)
    /\ timerRunning' = IF mounted /\ DestroyedOnFinish THEN EffectCleanup(running)
                       ELSE running

\* a click on option number i of the current question
HandleOptionToggle(i) ==
    /\ mounted
    /\ LET option == currentQuestion.all_answers[i]
           id == currentQuestion.id
           currentSelected == Selected(answers, id)
           newSelected == NewSelected(currentQuestion, currentSelected, option)
       IN /\ answers' = WithAnswer(answers, id, newSelected)
          /\ timerRunning' = (IF EffectStartsTimer THEN TRUE ELSE timerRunning)
          /\ timerAnswers' = (IF EffectStartsTimer
                              THEN EffectAnswers(answers', timerAnswers)
                              ELSE timerAnswers)
          /\ timerId' = (IF EffectStartsTimer THEN NextTimerId(timerId) ELSE timerId)
          /\ hist' = [last |-> <<currentIdx, option>>,
                      before1 |-> currentSelected,
                      twice |-> (hist.last = <<currentIdx, option>>),
                      before2 |-> (IF hist.last = <<currentIdx, option>>
                                   THEN hist.before1 ELSE <<>>),
                      cancelled |-> FALSE]
    /\ UNCHANGED <<questions, timeLimit, currentIdx, showConfirmModal, timeLeft,
                   mounted, finishCalls, exitCalls>>
    /\ UNCHANGED <<csvVars, editorVars>>

GoPrevious ==
    /\ mounted
    /\ currentIdx # 0
    /\ currentIdx' = PrevIdx(currentIdx)
    /\ hist' = NoHist
    /\ UNCHANGED <<questions, timeLimit, answers, showConfirmModal, timeLeft,
                   timerRunning, timerAnswers, mounted, finishCalls, exitCalls>>
    /\ UNCHANGED timerId
    /\ UNCHANGED <<csvVars, editorVars>>

GoNext ==
    /\ mounted
    /\ ~isLastQuestion
    /\ currentIdx' = NextIdx(currentIdx)
    /\ hist' = NoHist
    /\ UNCHANGED <<questions, timeLimit, answers, showConfirmModal, timeLeft,
                   timerRunning, timerAnswers, mounted, finishCalls, exitCalls>>
    /\ UNCHANGED timerId
    /\ UNCHANGED <<csvVars, editorVars>>

HandleFinishClick ==
    /\ mounted
    /\ isLastQuestion
    /\ isAllAnswered
    /\ showConfirmModal' = TRUE
    /\ hist' = NoHist
    /\ UNCHANGED <<questions, timeLimit, currentIdx, answers, timeLeft,
                   timerRunning, timerAnswers, mounted, finishCalls, exitCalls>>
    /\ UNCHANGED timerId
    /\ UNCHANGED <<csvVars, editorVars>>

\* a cancel that also goes back to the first question
CancelFinishResetting ==
    /\ mounted
    /\ showConfirmModal
    /\ showConfirmModal' = FALSE
    /\ currentIdx' = 0
    /\ hist' = [NoHist EXCEPT !.cancelled = TRUE]
    /\ UNCHANGED <<questions, timeLimit, answers, timeLeft,
                   timerRunning, timerAnswers, mounted, finishCalls, exitCalls>>
    /\ UNCHANGED timerId
    /\ UNCHANGED <<csvVars, editorVars>>

CancelFinish ==
    /\ mounted
    /\ showConfirmModal
    /\ showConfirmModal' = FALSE
    /\ hist' = [NoHist EXCEPT !.cancelled = TRUE]
    /\ UNCHANGED <<questions, timeLimit, currentIdx, answers, timeLeft,
                   timerRunning, timerAnswers, mounted, finishCalls, exitCalls>>
    /\ UNCHANGED timerId
    /\ UNCHANGED <<csvVars, editorVars>>

ConfirmFinish ==
    /\ mounted
    /\ showConfirmModal
    /\ OnFinish(answers, "confirm", timerRunning)
    /\ hist' = NoHist
    /\ UNCHANGED <<questions, timeLimit, currentIdx, answers, showConfirmModal, timeLeft,
                   timerAnswers, exitCalls>>
    /\ UNCHANGED timerId
    /\ UNCHANGED <<csvVars, editorVars>>

Exit ==
    /\ mounted
    /\ exitCalls' = exitCalls + 1
    /\ mounted' = (mounted /\ ~DestroyedOnExit)
    /\ timerRunning' = IF DestroyedOnExit THEN EffectCleanup(timerRunning)
                       ELSE timerRunning
    /\ hist' = NoHist
    /\ UNCHANGED <<questions, timeLimit, currentIdx, answers, showConfirmModal, timeLeft,
                   timerAnswers, finishCalls>>
    /\ UNCHANGED timerId
    /\ UNCHANGED <<csvVars, editorVars>>

\* the value the updater of setTimeLeft returns
TimeLeftUpdaterSkipping(prev) == IF prev <= 1 THEN 0 ELSE prev - 2
TimeLeftUpdater(prev) == IF prev <= 1 THEN 0 ELSE prev - 1

\* one firing of the interval: setTimeLeft(prev => ...)
Tick ==
    /\ timerRunning
    /\ timeLeft' = TimeLeftUpdater(timeLeft)
    /\ IF timeLeft <= 1
       THEN \* clearInterval(timerId); onFinish(answers); return 0
            OnFinish(timerAnswers, "timeout", FALSE)
       ELSE UNCHANGED <<timerRunning, mounted, finishCalls>>
    /\ UNCHANGED <<questions, timeLimit, currentIdx, answers, showConfirmModal,
                   timerAnswers, exitCalls, hist>>
    /\ UNCHANGED timerId
    /\ UNCHANGED <<csvVars, editorVars>>

NextQuiz ==
    \/ \E i \in DOMAIN currentQuestion.all_answers : HandleOptionToggle(i)
    \/ GoPrevious
    \/ GoNext
    \/ HandleFinishClick
    \/ CancelFinish
    \/ ConfirmFinish
    \/ Exit
    \/ Tick

SpecQuiz == InitQuiz /\ [][NextQuiz]_vars

\* setInterval(..., 1000): an interval that stays live fires. The condition is
\* per interval: an interval that is cleared and replaced before its second
\* has passed owes no firing, and its successor starts a second of its own.
TimerFairness == \A id \in 0..(MaxTimerIds - 1) : WF_vars(Tick /\ timerId = id)

SpecQuizTimer == InitQuiz /\ [][NextQuiz]_vars /\ TimerFairness

\* ======================================================= AdminDashboard
\* Strings are sequences of one-character strings.

QUOTE == "\""
COMMA == ","
SEMICOLON == ";"
NEWLINE == "\n"

\* the white space String.prototype.trim removes, as far as the inputs hold it
IsWhitespace(c) == c \in {" ", "\t", "\r", "\n"}

\* String.prototype.trim
Trim(s) ==
    LET keep == {i \in DOMAIN s : ~IsWhitespace(s[i])}
    IN IF keep = {} THEN <<>>
       ELSE SubSeq(s, CHOOSE i \in keep : \A j \in keep : i <= j,
                      CHOOSE i \in keep : \A j \in keep : i >= j)

\* the body of the loop inside String.prototype.split on a one-character
\* separator: the parts closed so far and the part being read
SplitStep(sep, st, c) ==
    IF c = sep THEN [parts |-> Append(st.parts, st.buffer), buffer |-> <<>>]
    ELSE [parts |-> st.parts, buffer |-> Append(st.buffer, c)]

\* a loop body in which every comma ends the field
TokenizeStepEveryComma(st, char) ==
    IF char = QUOTE
    THEN [matches |-> st.matches, inQuote |-> ~st.inQuote, buffer |-> st.buffer]
    ELSE IF char = COMMA
         THEN [matches |-> Append(st.matches, st.buffer), inQuote |-> st.inQuote,
               buffer |-> <<>>]
         ELSE [matches |-> st.matches, inQuote |-> st.inQuote,
               buffer |-> Append(st.buffer, char)]

\* the body of the character loop of parseCSV
TokenizeStep(st, char) ==
    IF char = QUOTE
    THEN [matches |-> st.matches, inQuote |-> ~st.inQuote, buffer |-> st.buffer]
    ELSE IF char = COMMA /\ ~st.inQuote
         THEN [matches |-> Append(st.matches, st.buffer), inQuote |-> st.inQuote,
               buffer |-> <<>>]
         ELSE [matches |-> st.matches, inQuote |-> st.inQuote,
               buffer |-> Append(st.buffer, char)]

\* the matcher of .replace(/""/g, '"'): pairs are matched from the left, without
\* overlap; pending is a quote read and not yet written
UnescapeStep(st, c) ==
    IF st.pending
    THEN IF c = QUOTE THEN [out |-> Append(st.out, QUOTE), pending |-> FALSE]
         ELSE [out |-> st.out \o <<QUOTE, c>>, pending |-> FALSE]
    ELSE IF c = QUOTE THEN [out |-> st.out, pending |-> TRUE]
         ELSE [out |-> Append(st.out, c), pending |-> FALSE]

LoopStep(loop, st, c) ==
    CASE loop.body = "split" -> SplitStep(loop.sep, st, c)
      [] loop.body = "tokenize" -> TokenizeStep(st, c)
      [] loop.body = "unescape" -> UnescapeStep(st, c)

\* A loop over the characters s[lo..hi] of a string, carrying a state: the
\* state after the last character. The characters are taken in order; the range
\* is halved, and the first half's state is computed before the second half
\* is entered (the test on it does that), which keeps the evaluation shallow.
RECURSIVE ForEachChar(_, _, _, _, _)
ForEachChar(loop, state, s, lo, hi) ==
    IF lo > hi THEN state
    ELSE IF lo = hi THEN LoopStep(loop, state, s[lo])
         ELSE LET mid == (lo + hi) \div 2
                  left == ForEachChar(loop, state, s, lo, mid)
              IN IF DOMAIN left = {} THEN left
                 ELSE ForEachChar(loop, left, s, mid + 1, hi)

\* String.prototype.split on a one-character separator
Split(s, sep) ==
    LET end == ForEachChar([body |-> "split", sep |-> sep],
                           [parts |-> <<>>, buffer |-> <<>>], s, 1, Len(s))
    IN Append(end.parts, end.buffer)

\* String.prototype.toLowerCase on the letters A-Z
UpperLetters == <<"A", "B", "C", "D", "E", "F", "G", "H", "I", "J", "K", "L", "M",
                  "N", "O", "P", "Q", "R", "S", "T", "U", "V", "W", "X", "Y", "Z">>
LowerLetters == <<"a", "b", "c", "d", "e", "f", "g", "h", "i", "j", "k", "l", "m",
                  "n", "o", "p", "q", "r", "s", "t", "u", "v", "w", "x", "y", "z">>
LowerChar(c) ==
    IF \E i \in DOMAIN UpperLetters : UpperLetters[i] = c
    THEN LowerLetters[CHOOSE i \in DOMAIN UpperLetters : UpperLetters[i] = c]
    ELSE c
ToLowerCase(s) == [i \in DOMAIN s |-> LowerChar(s[i])]

\* array.filter(Boolean) on an array of strings
RECURSIVE FilterNonEmpty(_)
FilterNonEmpty(ss) ==
    IF ss = <<>> THEN <<>>
    ELSE IF Head(ss) = <<>> THEN FilterNonEmpty(Tail(ss))
         ELSE <<Head(ss)>> \o FilterNonEmpty(Tail(ss))

\* ---------------------------------------------------------------- parseCSV
\* the character loop over one trimmed line, and matches.push(buffer) after it
Tokenize(currentLine) ==
    LET end == ForEachChar([body |-> "tokenize"],
                           [matches |-> <<>>, inQuote |-> FALSE, buffer |-> <<>>],
                           currentLine, 1, Len(currentLine))
    IN Append(end.matches, end.buffer)

\* .replace(/^"|"$/g, '')
StripQuotes(s) ==
    LET a == IF s # <<>> /\ s[1] = QUOTE THEN Tail(s) ELSE s
    IN IF a # <<>> /\ a[Len(a)] = QUOTE THEN SubSeq(a, 1, Len(a) - 1) ELSE a

\* .replace(/""/g, '"')
UnescapeQuotes(s) ==
    LET end == ForEachChar([body |-> "unescape"], [out |-> <<>>, pending |-> FALSE],
                           s, 1, Len(s))
    IN IF end.pending THEN Append(end.out, QUOTE) ELSE end.out

\* m.trim().replace(/^"|"$/g, '').replace(/""/g, '"').trim()
FieldValue(m) == Trim(UnescapeQuotes(StripQuotes(Trim(m))))

\* one pass of the loop over lines: the rows the line adds to result
RowsOfLine(line) ==
    LET currentLine == Trim(line)
        matches == Tokenize(currentLine)
        values == [k \in DOMAIN matches |-> FieldValue(matches[k])]
    IN IF currentLine = <<>> THEN <<>>
       ELSE IF Len(values) >= 5
            THEN <<[question |-> values[1], question_type |-> values[2],
                    answers |-> values[3], correct_answers |-> values[4],
                    category |-> values[5]]>>
            ELSE <<>>

RECURSIVE ParseLinesFrom(_, _)
ParseLinesFrom(lines, i) ==
    IF i > Len(lines) THEN <<>>
    ELSE RowsOfLine(lines[i]) \o ParseLinesFrom(lines, i + 1)

\* for (let i = 1; i < lines.length; i++): lines[0] is the sequence's element 1
FirstDataLine == 2
ParseCSV(text) == ParseLinesFrom(Split(text, NEWLINE), FirstDataLine)

\* -------------------------------------------------------- handleFileUpload
StrSingleChoiceSpaced ==
    <<"s", "i", "n", "g", "l", "e", " ", "c", "h", "o", "i", "c", "e">>
StrMultipleChoiceSpaced ==
    <<"m", "u", "l", "t", "i", "p", "l", "e", " ", "c", "h", "o", "i", "c", "e">>
StrSingleChoice ==
    <<"s", "i", "n", "g", "l", "e", "_", "c", "h", "o", "i", "c", "e">>
StrMultipleChoice ==
    <<"m", "u", "l", "t", "i", "p", "l", "e", "_", "c", "h", "o", "i", "c", "e">>
StrKoalatest ==
    <<"K", "o", "a", "l", "a", "t", "e", "s", "t">>
StrHundefuehrerschein ==
    <<"H", "u", "n", "d", "e", "f", "ü", "h", "r", "e", "r", "s", "c", "h", "e", "i", "n">>
StrHundetrainerTestfragen ==
    <<"H", "u", "n", "d", "e", "t", "r", "a", "i", "n", "e", "r", " ", "T", "e", "s", "t",
      "f", "r", "a", "g", "e", "n">>
StrTrainerpruefung ==
    <<"T", "r", "a", "i", "n", "e", "r", "p", "r", "ü", "f", "u", "n", "g">>
StrConstructor ==
    <<"c", "o", "n", "s", "t", "r", "u", "c", "t", "o", "r">>
\* CATEGORY_MAP, and the properties every object literal inherits: the lookup
\* CATEGORY_MAP[category] finds those too, and they are not strings.
InheritedProperty == <<"[inherited property of Object.prototype]">>
ObjectPrototypeKeys == {StrConstructor}
CategoryMapLookup(category) ==
    IF category = StrKoalatest THEN StrHundefuehrerschein
    ELSE IF category = StrHundetrainerTestfragen THEN StrTrainerpruefung
    ELSE IF category \in ObjectPrototypeKeys THEN InheritedProperty
    ELSE <<>>

\* let qType = ...trim(); the two normalising ifs
NormalizeType(question_type) ==
    LET qType == Trim(question_type)
        q1 == IF ToLowerCase(qType) = StrSingleChoiceSpaced THEN StrSingleChoice ELSE qType
    IN IF ToLowerCase(q1) = StrMultipleChoiceSpaced THEN StrMultipleChoice ELSE q1

\* a validation that lets every type through
IsValidTypeAnything(qType) == TRUE
IsValidType(qType) == ~(qType # StrSingleChoice /\ qType # StrMultipleChoice)

\* CATEGORY_MAP[category] || category
CleanCategory(rawCategory) ==
    LET category == Trim(rawCategory)
    IN IF CategoryMapLookup(category) # <<>> THEN CategoryMapLookup(category)
       ELSE category

\* s.split(';').map(s => s.trim()).filter(Boolean)
SplitAnswers(s) ==
    LET parts == Split(s, SEMICOLON)
    IN FilterNonEmpty([k \in DOMAIN parts |-> Trim(parts[k])])

Null == [null |-> TRUE]

\* the callback of rows.map
MapRow(row) ==
    LET qType == NormalizeType(row.question_type)
    IN IF ~IsValidType(qType) THEN Null
       ELSE [question_text |-> row.question,
             question_type |-> qType,
             all_answers |-> SplitAnswers(row.answers),
             correct_answers |-> SplitAnswers(row.correct_answers),
             category |-> CleanCategory(row.category)]

\* a filter that also wants a correct answer
KeepCandidateWithCorrectAnswer(q) ==
    q # Null /\ q.question_text # <<>> /\ Len(q.all_answers) > 0
             /\ Len(q.correct_answers) > 0

\* the predicate of the .filter after the map
KeepCandidate(q) ==
    q # Null /\ q.question_text # <<>> /\ Len(q.all_answers) > 0

\* a filter that gives up at the first rejected candidate
RECURSIVE FilterCandidatesUntilRejected(_)
FilterCandidatesUntilRejected(qs) ==
    IF qs = <<>> THEN <<>>
    ELSE IF KeepCandidate(Head(qs))
         THEN <<Head(qs)>> \o FilterCandidatesUntilRejected(Tail(qs))
         ELSE <<>>

RECURSIVE FilterCandidates(_)
FilterCandidates(qs) ==
    IF qs = <<>> THEN <<>>
    ELSE IF KeepCandidate(Head(qs)) THEN <<Head(qs)>> \o FilterCandidates(Tail(qs))
         ELSE FilterCandidates(Tail(qs))

QuestionsToInsert(rows) == FilterCandidates([k \in DOMAIN rows |-> MapRow(rows[k])])

\* a counter that counts every row that is not accepted
SkippedCountEveryDroppedRow(rows) == Len(rows) - Len(QuestionsToInsert(rows))

\* skippedCount after the map
SkippedCount(rows) ==
    Cardinality({k \in DOMAIN rows : ~IsValidType(NormalizeType(rows[k].question_type))})

\* ------------------------------------------------------------ the CSV files
HeaderLine ==
    <<"q", "u", "e", "s", "t", "i", "o", "n", ",", "q", "u", "e", "s", "t", "i", "o", "n",
      "_", "t", "y", "p", "e", ",", "a", "n", "s", "w", "e", "r", "s", ",", "c", "o", "r",
      "r", "e", "c", "t", "_", "a", "n", "s", "w", "e", "r", "s", ",", "c", "a", "t", "e",
      "g", "o", "r", "y">>
LineSit ==
    <<"S", "i", "t", ",", "s", "i", "n", "g", "l", "e", " ", "c", "h", "o", "i", "c", "e",
      ",", "S", "i", "t", "z", ";", "P", "l", "a", "t", "z", ";", "S", "t", "e", "h", ",",
      "S", "i", "t", "z", ",", "K", "o", "a", "l", "a", "t", "e", "s", "t">>
LineWrongCorrect ==
    <<"A", "u", "s", ",", "m", "u", "l", "t", "i", "p", "l", "e", "_", "c", "h", "o", "i",
      "c", "e", ",", "a", ";", "b", ",", "c", ",", "C", "a", "t">>
LineEssay ==
    <<"W", "a", "s", ",", "e", "s", "s", "a", "y", ",", "a", ";", "b", ",", "a", ",", "C",
      "a", "t">>
LineShort ==
    <<"n", "u", "r", ",", "d", "r", "e", "i", ",", "f", "e", "l", "d", "e", "r">>
LineBlank ==
    <<" ", " ">>
LineTwoCorrectSingle ==
    <<"F", "u", "s", "s", ",", "s", "i", "n", "g", "l", "e", "_", "c", "h", "o", "i", "c",
      "e", ",", "a", ";", "b", ",", "a", ";", "b", ",", "C", "a", "t">>
LineMixedCase ==
    <<"Q", ",", " ", "S", "i", "n", "g", "l", "e", " ", "C", "h", "o", "i", "c", "e", " ",
      ",", "a", ";", "b", ",", "a", ",", "C", "a", "t">>
LineUpperMultiple ==
    <<"Q", ",", "M", "U", "L", "T", "I", "P", "L", "E", " ", "C", "H", "O", "I", "C", "E",
      ",", "a", ";", "b", ",", "a", ";", "b", ",", "C", "a", "t">>
LineUpperUnderscore ==
    <<"Q", ",", "S", "i", "n", "g", "l", "e", "_", "C", "h", "o", "i", "c", "e", ",", "a",
      ";", "b", ",", "a", ",", "C", "a", "t">>
LineOneAnswer ==
    <<"Q", ",", "s", "i", "n", "g", "l", "e", "_", "c", "h", "o", "i", "c", "e", ",", "a",
      ",", "a", ",", "C", "a", "t">>
LineNoQuestion ==
    <<",", "s", "i", "n", "g", "l", "e", "_", "c", "h", "o", "i", "c", "e", ",", "a", ";",
      "b", ",", "a", ",", "C", "a", "t">>
LineNoAnswers ==
    <<"Q", ",", "s", "i", "n", "g", "l", "e", "_", "c", "h", "o", "i", "c", "e", ",", " ",
      ";", " ", ",", "a", ",", "C", "a", "t">>
LineNoCorrect ==
    <<"Q", ",", "m", "u", "l", "t", "i", "p", "l", "e", "_", "c", "h", "o", "i", "c", "e",
      ",", "a", ";", " ", "b", " ", ";", ",", ",", "C", "a", "t">>
LineQuotedComma ==
    <<"\"", "S", "i", "t", ",", " ", "b", "i", "t", "t", "e", "\"", ",", "s", "i", "n",
      "g", "l", "e", "_", "c", "h", "o", "i", "c", "e", ",", "a", ";", "b", ",", "a", ",",
      "C", "a", "t">>
LineDoubledQuote ==
    <<"\"", "S", "h", "e", " ", "s", "a", "i", "d", " ", "\"", "\"", "h", "i", "\"", "\"",
      ".", "\"", ",", "s", "i", "n", "g", "l", "e", "_", "c", "h", "o", "i", "c", "e", ",",
      "a", ";", "b", ",", "a", ",", "C", "a", "t">>
LineOpenQuote ==
    <<"\"", "S", "i", "t", ",", "s", "i", "n", "g", "l", "e", "_", "c", "h", "o", "i", "c",
      "e", ",", "a", ";", "b", ",", "a", ",", "C", "a", "t">>
LineLegacyTrainer ==
    <<"Q", ",", "m", "u", "l", "t", "i", "p", "l", "e", " ", "c", "h", "o", "i", "c", "e",
      ",", "a", ";", "b", ",", "b", ",", " ", "H", "u", "n", "d", "e", "t", "r", "a", "i",
      "n", "e", "r", " ", "T", "e", "s", "t", "f", "r", "a", "g", "e", "n", " ">>
LineProtoCategory ==
    <<"Q", ",", "s", "i", "n", "g", "l", "e", "_", "c", "h", "o", "i", "c", "e", ",", "a",
      ";", "b", ",", "a", ",", "c", "o", "n", "s", "t", "r", "u", "c", "t", "o", "r">>
LineSixFields ==
    <<"Q", ",", "s", "i", "n", "g", "l", "e", "_", "c", "h", "o", "i", "c", "e", ",", "a",
      ";", "b", ",", "a", ",", "C", "a", "t", ",", "e", "x", "t", "r", "a">>
LineCarriageReturn ==
    <<"Q", ",", "s", "i", "n", "g", "l", "e", "_", "c", "h", "o", "i", "c", "e", ",", "a",
      ";", "b", ",", "a", ",", "C", "a", "t", "\r">>
RECURSIVE JoinLines(_)
JoinLines(ls) ==
    IF ls = <<>> THEN <<>>
    ELSE IF Len(ls) = 1 THEN ls[1]
         ELSE ls[1] \o <<NEWLINE>> \o JoinLines(Tail(ls))

\* the data lines that are combined, after the header, into files of up to
\* MaxRows rows
CoreLines == {LineSit, LineWrongCorrect, LineEssay, LineShort}
\* the data lines that are tried alone, after the header
SingleLines ==
    {LineTwoCorrectSingle, LineMixedCase, LineUpperMultiple, LineUpperUnderscore,
     LineOneAnswer, LineNoQuestion, LineNoAnswers, LineNoCorrect, LineQuotedComma,
     LineDoubledQuote, LineOpenQuote, LineLegacyTrainer, LineProtoCategory,
     LineSixFields, LineCarriageReturn, LineBlank}
\* files whose first line is a data row, files with blank lines, a file that
\* ends in a line break
OtherFiles ==
    {<<LineSit>>, <<LineSit, LineSit>>, <<LineEssay>>, <<LineEssay, LineSit>>,
     <<LineEssay, LineEssay>>, <<HeaderLine, LineBlank, LineSit>>,
     <<HeaderLine, LineSit, LineBlank, LineEssay>>, <<HeaderLine, <<>>>>,
     <<HeaderLine, LineSit, <<>>>>}

CsvTexts ==
    {<<>>}
    \cup {JoinLines(<<HeaderLine>> \o rows) :
            rows \in UNION {[1..n -> CoreLines] : n \in 0..MaxRows}}
    \cup {JoinLines(<<HeaderLine, l>>) : l \in SingleLines}
    \cup {JoinLines(ls) : ls \in OtherFiles}

\* ------------------------------------------------------------ Init, actions
InitCsv ==
    /\ csvText \in CsvTexts
    /\ uploads = 0
    /\ reading = 0
    /\ inserting = <<>>
    /\ fetching = 1         \* the mount effect has called loadQuestions
    /\ loading = TRUE
    /\ alerts = <<>>
    /\ bulkInsertCalls = <<>>
    /\ importLog = <<>>
    /\ questions = <<>>
    /\ timeLimit = 0
    /\ currentIdx = 0
    /\ answers = <<>>
    /\ showConfirmModal = FALSE
    /\ timeLeft = 0
    /\ timerRunning = FALSE
    /\ timerAnswers = <<>>
    /\ timerId = 0
    /\ mounted = FALSE
    /\ finishCalls = <<>>
    /\ exitCalls = 0
    /\ hist = NoHist
    /\ isModalOpen = FALSE
    /\ editingQuestion = NoQuestion

Alert(kind, message, imported, skipped) ==
    [kind |-> kind, message |-> message, imported |-> imported, skipped |-> skipped]

RemoveAt(s, k) == SubSeq(s, 1, k - 1) \o SubSeq(s, k + 1, Len(s))

\* the change event of the file input with a file chosen: reader.readAsText(file)
HandleFileUpload ==
    /\ uploads < MaxUploads
    /\ uploads' = uploads + 1
    /\ reading' = reading + 1
    /\ UNCHANGED <<csvText, inserting, fetching, loading, alerts, bulkInsertCalls,
                   importLog>>
    /\ UNCHANGED <<quizVars, editorVars>>

\* the synchronous part of reader.onload's try block: parseCSV, the map and
\* the filter
ImportOf(text) ==
    LET rows == ParseCSV(text)
    IN [accepted |-> QuestionsToInsert(rows), skipped |-> SkippedCount(rows)]

\* let skippedCount = 0: the counter is local to one run of reader.onload
SkippedCountCarriedOver(log) == IF log = <<>> THEN 0 ELSE log[Len(log)].skipped
InitialSkippedCount(log) == 0

\* one run of reader.onload after the runs in log
ImportRun(text, log) ==
    LET import == ImportOf(text)
    IN [accepted |-> import.accepted,
        skipped |-> InitialSkippedCount(log) + import.skipped]

\* new Error(skippedCount > 0 ? ... : ...)
MsgAllSkipped == "All rows were skipped due to errors."
MsgNoValid == "No valid questions found."

\* reader.onload, up to its await (or to the end, when the batch is empty)
ReaderOnLoad ==
    /\ reading > 0
    /\ reading' = reading - 1
    /\ IF csvText = <<>>
       THEN UNCHANGED <<inserting, loading, alerts, bulkInsertCalls, importLog>>
       ELSE \E import \in {ImportRun(csvText, importLog)} :
               /\ importLog' = Append(importLog, import)
               /\ IF Len(import.accepted) = 0
                  THEN /\ alerts' = Append(alerts,
                              Alert("error",
                                    IF import.skipped > 0 THEN MsgAllSkipped
                                    ELSE MsgNoValid, 0, import.skipped))
                       /\ loading' = FALSE
                       /\ UNCHANGED <<inserting, bulkInsertCalls>>
                  ELSE /\ bulkInsertCalls' = Append(bulkInsertCalls, import.accepted)
                       /\ inserting' = Append(inserting, import)
                       /\ loading' = TRUE
                       /\ UNCHANGED alerts
    /\ UNCHANGED <<csvText, uploads, fetching>>
    /\ UNCHANGED <<quizVars, editorVars>>

\* an awaited bulkInsertQuestions resolves: the success alert, loadQuestions()
\* up to its await, and the finally block
BulkInsertResolved(k) ==
    /\ k \in DOMAIN inserting
    /\ inserting' = RemoveAt(inserting, k)
    /\ alerts' = Append(alerts, Alert("success", "Successfully imported",
                                      Len(inserting[k].accepted), inserting[k].skipped))
    /\ fetching' = fetching + 1
    /\ loading' = FALSE
    /\ UNCHANGED <<csvText, uploads, reading, bulkInsertCalls, importLog>>
    /\ UNCHANGED <<quizVars, editorVars>>

\* an awaited bulkInsertQuestions rejects: the catch and the finally block
BulkInsertRejected(k) ==
    /\ k \in DOMAIN inserting
    /\ inserting' = RemoveAt(inserting, k)
    /\ alerts' = Append(alerts, Alert("error", "Error importing CSV", 0,
                                      inserting[k].skipped))
    /\ loading' = FALSE
    /\ UNCHANGED <<csvText, uploads, reading, fetching, bulkInsertCalls, importLog>>
    /\ UNCHANGED <<quizVars, editorVars>>

\* loadQuestions after its await: setQuestions(data), setLoading(false)
FetchResolved ==
    /\ fetching > 0
    /\ fetching' = fetching - 1
    /\ loading' = FALSE
    /\ UNCHANGED <<csvText, uploads, reading, inserting, alerts, bulkInsertCalls,
                   importLog>>
    /\ UNCHANGED <<quizVars, editorVars>>

\* loadQuestions after its await failed: alert, setLoading(false)
FetchRejected ==
    /\ fetching > 0
    /\ fetching' = fetching - 1
    /\ alerts' = Append(alerts, Alert("error", "Failed to load questions.", 0, 0))
    /\ loading' = FALSE
    /\ UNCHANGED <<csvText, uploads, reading, inserting, bulkInsertCalls, importLog>>
    /\ UNCHANGED <<quizVars, editorVars>>

NextCsv ==
    \/ HandleFileUpload
    \/ ReaderOnLoad
    \/ \E k \in 1..MaxUploads : BulkInsertResolved(k)
    \/ \E k \in 1..MaxUploads : BulkInsertRejected(k)
    \/ FetchResolved
    \/ FetchRejected

SpecCsv == InitCsv /\ [][NextCsv]_vars

\* ------------------------------------------------------------------ claims
\* C1 (as claimed): every question of every accepted set the import produced
\* has its correct answers among its answers and, when it is single_choice,
\* at most one correct answer.
AcceptedQuestionsWellFormed ==
    \A n \in DOMAIN importLog :
        \A k \in DOMAIN importLog[n].accepted :
            LET q == importLog[n].accepted[k]
            IN /\ Range(q.correct_answers) \subseteq Range(q.all_answers)
               /\ q.question_type = StrSingleChoice =>
                      Cardinality(Range(q.correct_answers)) <= 1

SessionQuestion(idx) == questions[idx + 1]

\* C2: in one session onFinish is called at most once: after the call made by
\* confirmFinish or by the timer, the component is unmounted and its interval
\* cleared, so no click and no tick makes a second call.
EmittedAtMostOnce ==
    /\ Len(finishCalls) <= 1
    /\ Len(finishCalls) = 1 => ~mounted /\ ~timerRunning

\* C2 witness: the answers were emitted by confirmFinish with one second left
\* on a running countdown (a further tick would have emitted again).
EmittedByConfirmWithTimeLeft ==
    /\ Len(finishCalls) = 1
    /\ finishCalls[1].by = "confirm"
    /\ timeLimit > 0
    /\ timeLeft = 1

\* C3 (as claimed): while the confirmation modal is shown no step changes
\* timeLeft and no step emits the answers by timeout.
CountdownPausedWhileConfirming ==
    [][(mounted /\ showConfirmModal) =>
          /\ timeLeft' = timeLeft
          /\ finishCalls' # finishCalls => finishCalls'[Len(finishCalls')].by = "confirm"]_vars

\* C4: with a positive time limit, the tick that takes the countdown to zero
\* while no modal is shown ends the session at once, whether or not all
\* questions are answered, and hands onFinish the answers as they are then.
TimeoutEmitsCurrentAnswers ==
    [][(timeLimit > 0 /\ mounted /\ ~showConfirmModal /\ timeLeft # 0 /\ timeLeft' = 0) =>
          /\ finishCalls' = Append(finishCalls, [answers |-> answers, by |-> "timeout"])
          /\ ~mounted'
          /\ ~showConfirmModal'
          /\ answers' = answers]_vars

\* C4 witness: a session of the longest time limit ended by timeout outside the
\* modal, with a selection made and a question still unanswered.
TimedOutPartlyAnswered ==
    /\ Len(finishCalls) = 1
    /\ finishCalls[1].by = "timeout"
    /\ ~showConfirmModal
    /\ timeLimit = MaxTime
    /\ \E i \in DOMAIN questions : Selected(finishCalls[1].answers, questions[i].id) # <<>>
    /\ \E i \in DOMAIN questions : Selected(finishCalls[1].answers, questions[i].id) = <<>>

\* C5: the modal opens only from the last question with every question
\* answered, and opening it changes neither the index nor the answers.
FinishOnlyWhenLastAndAllAnswered ==
    [][(~showConfirmModal /\ showConfirmModal') =>
          /\ currentIdx = Len(questions) - 1
          /\ \A i \in DOMAIN questions : Selected(answers, questions[i].id) # <<>>
          /\ currentIdx' = currentIdx
          /\ answers' = answers]_vars

\* C5 witness: the modal is open in a session of MaxQuestions questions.
ConfirmingFinishReached ==
    mounted /\ showConfirmModal /\ Len(questions) = MaxQuestions

\* C6: once onExit was called, onFinish has not been and will not be called:
\* the exit unmounts the component, which clears the interval.
ExitNeverScores ==
    exitCalls > 0 => finishCalls = <<>> /\ ~timerRunning /\ ~mounted

\* C6 witness: exited with a selection made and one second left on the clock.
ExitedWithTimeLeft ==
    exitCalls = 1 /\ timeLimit > 0 /\ timeLeft = 1 /\ answers # <<>>

\* C7 (as claimed): while the confirmation modal is shown no step changes the
\* answers or the current index.
NoOpWhileConfirming ==
    [][(mounted /\ showConfirmModal) =>
          (answers' = answers /\ currentIdx' = currentIdx)]_vars

\* C8: after two clicks in a row on the same option of a multiple_choice
\* question its selection holds the same options as before the first click,
\* and is empty again if it was empty.
ToggleTwiceRestores ==
    (hist.twice /\ SessionQuestion(hist.last[1]).question_type = "multiple_choice") =>
        LET now == Selected(answers, SessionQuestion(hist.last[1]).id)
        IN /\ Range(now) = Range(hist.before2)
           /\ hist.before2 = <<>> => now = <<>>
           /\ Len(now) = Len(hist.before2)

\* C8 witness: an option that was selected was clicked twice, which moved it
\* to the end of the list: the selection is restored as a set only.
ToggledTwiceReordered ==
    /\ hist.twice
    /\ SessionQuestion(hist.last[1]).question_type = "multiple_choice"
    /\ Selected(answers, SessionQuestion(hist.last[1]).id) # hist.before2

\* C9: right after a click on option o of a single_choice question its
\* selection is <<o>>, and no single_choice question ever has two selections.
SingleChoiceExclusive ==
    /\ \A i \in DOMAIN questions :
          questions[i].question_type = "single_choice" =>
              Len(Selected(answers, questions[i].id)) <= 1
    /\ (hist.last # <<>> /\ SessionQuestion(hist.last[1]).question_type = "single_choice") =>
          Selected(answers, SessionQuestion(hist.last[1]).id) = <<hist.last[2]>>

\* C9 witness: a click on a single_choice question that had another option
\* selected.
SingleChoiceReplaced ==
    /\ hist.last # <<>>
    /\ SessionQuestion(hist.last[1]).question_type = "single_choice"
    /\ hist.before1 # <<>>
    /\ hist.before1 # <<hist.last[2]>>

\* C10: the index stays within the question list; the updaters clamp at both
\* ends; a navigation step moves the index by exactly one; and the buttons
\* are enabled whatever the answers are.
IndexInRange ==
    /\ currentIdx \in 0..(Len(questions) - 1)
    /\ NextIdx(Len(questions) - 1) = Len(questions) - 1
    /\ PrevIdx(0) = 0
    /\ \A i \in 0..(Len(questions) - 2) : NextIdx(i) = i + 1
    /\ \A i \in 1..(Len(questions) - 1) : PrevIdx(i) = i - 1
    /\ (mounted /\ currentIdx < Len(questions) - 1) => ENABLED GoNext
    /\ (mounted /\ currentIdx > 0) => ENABLED GoPrevious
NavigationClamped ==
    /\ []IndexInRange
    /\ [][currentIdx' # currentIdx =>
            (currentIdx' = currentIdx + 1 \/ currentIdx' = currentIdx - 1)]_vars

\* C10 witness: the last of MaxQuestions questions was reached with nothing
\* answered.
LastReachedUnanswered ==
    /\ currentIdx = MaxQuestions - 1
    /\ answers = <<>>
    /\ mounted

\* --------------------------------------------------- claims about the import

\* C11 (as claimed): every run of reader.onload either ends in the empty-batch
\* error, exactly when its accepted set is empty, without a bulk insert and
\* with the message chosen by skipped > 0, or hands its whole accepted set to
\* bulkInsertQuestions once; header + one essay row gives the skipped-rows error.
EmptyBatchFailsElseOneBatch ==
    [][reading' = reading - 1 =>
          \/ /\ importLog' # importLog
             /\ importLog'[Len(importLog')].accepted = <<>>
             /\ bulkInsertCalls' = bulkInsertCalls
             /\ Len(alerts') = Len(alerts) + 1
             /\ alerts'[Len(alerts')].kind = "error"
             /\ alerts'[Len(alerts')].message =
                    (IF importLog'[Len(importLog')].skipped > 0 THEN MsgAllSkipped
                     ELSE MsgNoValid)
             /\ csvText = JoinLines(<<HeaderLine, LineEssay>>) =>
                    /\ importLog'[Len(importLog')].skipped = 1
                    /\ alerts'[Len(alerts')].message = MsgAllSkipped
          \/ /\ importLog' # importLog
             /\ importLog'[Len(importLog')].accepted # <<>>
             /\ bulkInsertCalls' =
                    Append(bulkInsertCalls, importLog'[Len(importLog')].accepted)
             /\ alerts' = alerts]_vars

\* the part of C11 that the code keeps: the same, for a file that is not empty
EmptyBatchFailsElseOneBatchNonEmptyFile ==
    [][(reading' = reading - 1 /\ csvText # <<>>) =>
          \/ /\ importLog' # importLog
             /\ importLog'[Len(importLog')].accepted = <<>>
             /\ bulkInsertCalls' = bulkInsertCalls
             /\ Len(alerts') = Len(alerts) + 1
             /\ alerts'[Len(alerts')].kind = "error"
             /\ alerts'[Len(alerts')].message =
                    (IF importLog'[Len(importLog')].skipped > 0 THEN MsgAllSkipped
                     ELSE MsgNoValid)
             /\ csvText = JoinLines(<<HeaderLine, LineEssay>>) =>
                    /\ importLog'[Len(importLog')].skipped = 1
                    /\ alerts'[Len(alerts')].message = MsgAllSkipped
          \/ /\ importLog' # importLog
             /\ importLog'[Len(importLog')].accepted # <<>>
             /\ bulkInsertCalls' =
                    Append(bulkInsertCalls, importLog'[Len(importLog')].accepted)
             /\ alerts' = alerts]_vars

\* the physical lines after the first
DataLines(text) ==
    LET lines == Split(text, NEWLINE)
    IN SubSeq(lines, FirstDataLine, Len(lines))

\* what the import accepts from the file made of the header and this one line
AcceptedAlone(line) == ImportOf(JoinLines(<<HeaderLine, line>>)).accepted

RECURSIVE ConcatAcceptedAlone(_)
ConcatAcceptedAlone(lines) ==
    IF lines = <<>> THEN <<>>
    ELSE AcceptedAlone(Head(lines)) \o ConcatAcceptedAlone(Tail(lines))

\* C12: the accepted set of a file is the concatenation, in order, of what each
\* of its data lines yields alone; no row, malformed or not, changes what
\* another row yields, and the only error of a run is the empty batch.
RowsIndependent ==
    [][importLog' # importLog =>
          /\ importLog'[Len(importLog')].accepted = ConcatAcceptedAlone(DataLines(csvText))
          /\ importLog'[Len(importLog')].accepted # <<>> => alerts' = alerts]_vars

\* C12 witness: a file whose first data row has an invalid type and whose
\* second is well-formed was imported, and the second row was handed on.
GoodRowAfterMalformedRow ==
    /\ csvText = JoinLines(<<HeaderLine, LineEssay, LineSit>>)
    /\ importLog # <<>>
    /\ Len(importLog[1].accepted) = 1
    /\ bulkInsertCalls # <<>>

\* the number of quote characters in a string
RECURSIVE CountQuotes(_)
CountQuotes(str) ==
    IF str = <<>> THEN 0
    ELSE (IF Head(str) = QUOTE THEN 1 ELSE 0) + CountQuotes(Tail(str))

\* She said "hi".
StrSheSaidHi ==
    <<"S", "h", "e", " ", "s", "a", "i", "d", " ", "\"", "h", "i", "\"", ".">>

\* C13 (as claimed): the question field "She said ""hi""." of an imported row
\* yields the question text She said "hi". , one quote for each doubled quote.
DoubledQuoteIsEscapedQuote ==
    (csvText = JoinLines(<<HeaderLine, LineDoubledQuote>>) /\ importLog # <<>>) =>
        /\ Len(importLog[1].accepted) = 1
        /\ importLog[1].accepted[1].question_text = StrSheSaidHi
        /\ CountQuotes(importLog[1].accepted[1].question_text) = 2

\* C14: every accepted candidate has the type single_choice or multiple_choice;
\* " Single Choice " and "MULTIPLE CHOICE" are accepted as single_choice and
\* multiple_choice; "Single_Choice" and "essay" are not exactly one of the two
\* and their rows are rejected and counted as skipped.
TypeNormalizedAndValidated ==
    \A n \in DOMAIN importLog :
        LET accepted == importLog[n].accepted
            skipped == importLog[n].skipped
        IN /\ \A k \in DOMAIN accepted :
                  accepted[k].question_type \in {StrSingleChoice, StrMultipleChoice}
           /\ csvText = JoinLines(<<HeaderLine, LineMixedCase>>) =>
                  /\ Len(accepted) = 1
                  /\ accepted[1].question_type = StrSingleChoice
                  /\ skipped = 0
           /\ csvText = JoinLines(<<HeaderLine, LineUpperMultiple>>) =>
                  /\ Len(accepted) = 1
                  /\ accepted[1].question_type = StrMultipleChoice
                  /\ skipped = 0
           /\ csvText = JoinLines(<<HeaderLine, LineUpperUnderscore>>) =>
                  accepted = <<>> /\ skipped = 1
           /\ csvText = JoinLines(<<HeaderLine, LineEssay>>) =>
                  accepted = <<>> /\ skipped = 1
           /\ csvText = JoinLines(<<HeaderLine, LineEssay, LineSit>>) =>
                  Len(accepted) = 1 /\ skipped = 1

\* C14 witness: the row whose type is " Single Choice " was imported as
\* single_choice.
MixedCaseTypeImported ==
    /\ csvText = JoinLines(<<HeaderLine, LineMixedCase>>)
    /\ bulkInsertCalls # <<>>
    /\ bulkInsertCalls[1][1].question_type = StrSingleChoice

\* the candidate the row Sit,single choice,Sitz;Platz;Steh,Sitz,Koalatest is
\* said to yield
SitCandidate ==
    [question_text |-> <<"S", "i", "t">>,
     question_type |-> StrSingleChoice,
     all_answers |-> <<<<"S", "i", "t", "z">>, <<"P", "l", "a", "t", "z">>,
                       <<"S", "t", "e", "h">>>>,
     correct_answers |-> <<<<"S", "i", "t", "z">>>>,
     category |-> StrHundefuehrerschein]

\* C15 (as claimed): the two legacy categories are renamed, every other
\* category is the trimmed input unchanged (Cat stays Cat, constructor stays
\* constructor), the table changes none of its outputs, and the Sit row yields
\* the candidate of the example.
CategoryThroughLegacyTable ==
    \A n \in DOMAIN importLog :
        LET accepted == importLog[n].accepted
        IN /\ \A k \in DOMAIN accepted :
                  CleanCategory(accepted[k].category) = accepted[k].category
           /\ csvText = JoinLines(<<HeaderLine, LineSit>>) => accepted = <<SitCandidate>>
           /\ csvText = JoinLines(<<HeaderLine, LineLegacyTrainer>>) =>
                  Len(accepted) = 1 /\ accepted[1].category = StrTrainerpruefung
           /\ csvText = JoinLines(<<HeaderLine, LineWrongCorrect>>) =>
                  Len(accepted) = 1 /\ accepted[1].category = <<"C", "a", "t">>
           /\ csvText = JoinLines(<<HeaderLine, LineProtoCategory>>) =>
                  Len(accepted) = 1 /\ accepted[1].category = StrConstructor

\* the part of C15 that the code keeps: the same without the category that is a
\* property name of Object.prototype
CategoryThroughLegacyTableOwnKeys ==
    \A n \in DOMAIN importLog :
        LET accepted == importLog[n].accepted
        IN /\ \A k \in DOMAIN accepted :
                  CleanCategory(accepted[k].category) = accepted[k].category
           /\ csvText = JoinLines(<<HeaderLine, LineSit>>) => accepted = <<SitCandidate>>
           /\ csvText = JoinLines(<<HeaderLine, LineLegacyTrainer>>) =>
                  Len(accepted) = 1 /\ accepted[1].category = StrTrainerpruefung
           /\ csvText = JoinLines(<<HeaderLine, LineWrongCorrect>>) =>
                  Len(accepted) = 1 /\ accepted[1].category = <<"C", "a", "t">>

\* C16 (as claimed): at most one bulkInsertQuestions call is awaited at any
\* time, and none is started while one is awaited.
AtMostOneBatchOutstanding == Len(inserting) <= 1

\* C17 (as claimed): every accepted candidate has at least two answers.
AcceptedHaveTwoAnswers ==
    \A n \in DOMAIN importLog :
        \A k \in DOMAIN importLog[n].accepted :
            Len(importLog[n].accepted[k].all_answers) >= 2

\* ------------------------------------------- AdminDashboard: the add/edit modal
\* The question being edited is modelled by the three fields the answer editor
\* and the type select write; question_text and category are written by
\* handlers of their own that touch nothing else. Option texts are whole
\* strings here: the handlers only compare them.
AnswerTexts == {"", "a", "b"}

\* checked={editingQuestion.correct_answers?.includes(answer) && answer !== ''}
ShownChecked(q, answer) == Includes(q.correct_answers, answer) /\ answer # ""

\* the type select resets the correct answers
CorrectAfterTypeChangeKept(correct) == correct
CorrectAfterTypeChange(correct) == <<>>

\* onChange of the radio / checkbox of option idx; checked is e.target.checked
NewCorrectOnMark(q, answer, checked) ==
    IF q.question_type = "single_choice" THEN <<answer>>
    ELSE IF checked THEN Append(q.correct_answers, answer)
         ELSE FilterOut(q.correct_answers, answer)

\* onChange of the text input of option idx
NewCorrectOnEdit(q, oldVal, value) ==
    IF Includes(q.correct_answers, oldVal)
    THEN Append(FilterOut(q.correct_answers, oldVal), value)
    ELSE q.correct_answers

InitEditor ==
    /\ isModalOpen = FALSE
    /\ editingQuestion = NoQuestion
    /\ csvText = <<>>
    /\ uploads = 0
    /\ reading = 0
    /\ inserting = <<>>
    /\ fetching = 1
    /\ loading = TRUE
    /\ alerts = <<>>
    /\ bulkInsertCalls = <<>>
    /\ importLog = <<>>
    /\ questions = <<>>
    /\ timeLimit = 0
    /\ currentIdx = 0
    /\ answers = <<>>
    /\ showConfirmModal = FALSE
    /\ timeLeft = 0
    /\ timerRunning = FALSE
    /\ timerAnswers = <<>>
    /\ timerId = 0
    /\ mounted = FALSE
    /\ finishCalls = <<>>
    /\ exitCalls = 0
    /\ hist = NoHist

HandleAddNew ==
    /\ editingQuestion' = [question_type |-> "single_choice",
                           all_answers |-> <<"">>,
                           correct_answers |-> <<>>]
    /\ isModalOpen' = TRUE
    /\ UNCHANGED <<quizVars, csvVars>>

\* the modal is rendered: {isModalOpen && editingQuestion && (...)}
EditorShown == isModalOpen /\ editingQuestion # NoQuestion

\* a click on the radio / checkbox of option idx: the event carries the
\* opposite of what the box shows
MarkCorrect(idx) ==
    /\ EditorShown
    /\ idx \in DOMAIN editingQuestion.all_answers
    /\ LET answer == editingQuestion.all_answers[idx]
           newCorrect == NewCorrectOnMark(editingQuestion, answer,
                                          ~ShownChecked(editingQuestion, answer))
       IN /\ Len(newCorrect) <= MaxCorrect
          /\ editingQuestion' = [editingQuestion EXCEPT !.correct_answers = newCorrect]
    /\ UNCHANGED isModalOpen
    /\ UNCHANGED <<quizVars, csvVars>>

EditAnswerText(idx, value) ==
    /\ EditorShown
    /\ idx \in DOMAIN editingQuestion.all_answers
    /\ value # editingQuestion.all_answers[idx]
    /\ LET oldVal == editingQuestion.all_answers[idx]
           newAnswers == [editingQuestion.all_answers EXCEPT ![idx] = value]
           newCorrect == NewCorrectOnEdit(editingQuestion, oldVal, value)
       IN editingQuestion' = [editingQuestion EXCEPT !.all_answers = newAnswers,
                                                     !.correct_answers = newCorrect]
    /\ UNCHANGED isModalOpen
    /\ UNCHANGED <<quizVars, csvVars>>

RemoveAnswer(idx) ==
    /\ EditorShown
    /\ idx \in DOMAIN editingQuestion.all_answers
    /\ LET answer == editingQuestion.all_answers[idx]
           newAnswers == RemoveAt(editingQuestion.all_answers, idx)
           newCorrect == FilterOut(editingQuestion.correct_answers, answer)
       IN editingQuestion' = [editingQuestion EXCEPT !.all_answers = newAnswers,
                                                     !.correct_answers = newCorrect]
    /\ UNCHANGED isModalOpen
    /\ UNCHANGED <<quizVars, csvVars>>

AddOption ==
    /\ EditorShown
    /\ Len(editingQuestion.all_answers) < MaxOptions
    /\ editingQuestion' =
          [editingQuestion EXCEPT !.all_answers = Append(editingQuestion.all_answers, "")]
    /\ UNCHANGED isModalOpen
    /\ UNCHANGED <<quizVars, csvVars>>

ChangeType(t) ==
    /\ EditorShown
    /\ t # editingQuestion.question_type
    /\ editingQuestion' =
          [editingQuestion EXCEPT !.question_type = t,
                                  !.correct_answers =
                                      CorrectAfterTypeChange(editingQuestion.correct_answers)]
    /\ UNCHANGED isModalOpen
    /\ UNCHANGED <<quizVars, csvVars>>

\* Abbrechen
CancelEdit ==
    /\ EditorShown
    /\ isModalOpen' = FALSE
    /\ UNCHANGED editingQuestion
    /\ UNCHANGED <<quizVars, csvVars>>

NextEditor ==
    \/ HandleAddNew
    \/ \E idx \in 1..MaxOptions : MarkCorrect(idx)
    \/ \E idx \in 1..MaxOptions, value \in AnswerTexts : EditAnswerText(idx, value)
    \/ \E idx \in 1..MaxOptions : RemoveAnswer(idx)
    \/ AddOption
    \/ \E t \in QuestionTypes : ChangeType(t)
    \/ CancelEdit

SpecEditor == InitEditor /\ [][NextEditor]_vars

\* C18: a question opened by handleAddNew keeps, through every editor
\* operation, its correct answers among its answers and, while it is
\* single_choice, at most one correct answer; duplicate options included.
EditorKeepsCorrectWithinAnswers ==
    editingQuestion # NoQuestion =>
        /\ Range(editingQuestion.correct_answers) \subseteq Range(editingQuestion.all_answers)
        /\ editingQuestion.question_type = "single_choice" =>
               Len(editingQuestion.correct_answers) <= 1

\* C18 witness: a single_choice question of MaxOptions options that repeat a
\* text, with the repeated text marked correct.
EditedWithDuplicateOptions ==
    /\ EditorShown
    /\ editingQuestion.question_type = "single_choice"
    /\ Len(editingQuestion.all_answers) = MaxOptions
    /\ \E i, j \in DOMAIN editingQuestion.all_answers :
          /\ i # j
          /\ editingQuestion.all_answers[i] = "a"
          /\ editingQuestion.all_answers[j] = "a"
    /\ editingQuestion.correct_answers = <<"a">>

TimedSessionEventuallyEnds ==
    (timeLimit > 0) => <>(finishCalls # <<>> \/ exitCalls > 0 \/ showConfirmModal)

\* the part of C20 that the code keeps: a session with a positive time limit
\* ends unless the learner keeps clicking options for ever, each click
\* replacing the interval
TimedSessionEndsUnlessIntervalReplacedForEver ==
    (timeLimit > 0) =>
        \/ <>(finishCalls # <<>> \/ exitCalls > 0)
        \/ []<><<timerId' # timerId>>_vars

\* ------------------------------------------------ further claims, the session
\* C21 (as claimed): every answer map emitted by confirmFinish has a non-empty
\* selection for every question of the session.
ConfirmedAnswersComplete ==
    \A k \in DOMAIN finishCalls :
        finishCalls[k].by = "confirm" =>
            \A i \in DOMAIN questions :
                Selected(finishCalls[k].answers, questions[i].id) # <<>>

\* C22: without a positive time limit no interval is ever live, timeLeft keeps
\* its initial value, and every emission of the answers is made by
\* confirmFinish.
NoCountdownWithoutLimit ==
    timeLimit <= 0 =>
        /\ ~timerRunning
        /\ timeLeft = timeLimit
        /\ \A k \in DOMAIN finishCalls : finishCalls[k].by = "confirm"

\* C22 witness: a session with a negative time limit was finished by
\* confirmation after selections on MaxQuestions questions.
ConfirmedWithoutLimit ==
    /\ timeLimit < 0
    /\ Len(questions) = MaxQuestions
    /\ Len(finishCalls) = 1
    /\ finishCalls[1].by = "confirm"

\* C23: with a positive time limit timeLeft starts at the limit and stays in
\* 0..timeLimit; a step that changes it takes exactly one from it and is a
\* firing of the interval: it is no click, for it leaves the index, the modal
\* and the exit count alone and changes the answers of no question.
TimeLeftRange == timeLimit > 0 => timeLeft \in 0..timeLimit
TimeLeftCountsDown ==
    /\ (timeLimit > 0 => timeLeft = timeLimit)
    /\ []TimeLeftRange
    /\ [][(timeLimit > 0 /\ timeLeft' # timeLeft) =>
            /\ timeLeft' = timeLeft - 1
            /\ answers' = answers
            /\ currentIdx' = currentIdx
            /\ showConfirmModal' = showConfirmModal
            /\ exitCalls' = exitCalls
            /\ hist' = hist]_vars

\* C23 witness: the countdown of the longest limit is at zero, after a selection
\* and a step to the next question were made on the way.
CountedDownToZero ==
    /\ timeLimit = MaxTime
    /\ timeLeft = 0
    /\ answers # <<>>
    /\ currentIdx > 0

\* C24: the step that closes the modal changes nothing but showConfirmModal
\* (answers, index, countdown and emissions are as they were), as the step
\* that opened it changed nothing else; and when the modal is closed on the
\* last question with every question answered, the finish click is enabled.
CancelFinishOnlyClosesModal ==
    /\ [][(showConfirmModal /\ ~showConfirmModal') =>
            /\ mounted'
            /\ UNCHANGED <<questions, timeLimit, currentIdx, answers, timeLeft,
                           timerRunning, timerAnswers, mounted, finishCalls, exitCalls>>]_vars
    /\ [][(~showConfirmModal /\ showConfirmModal') =>
            UNCHANGED <<currentIdx, answers, finishCalls>>]_vars
    /\ []((/\ mounted
           /\ ~showConfirmModal
           /\ currentIdx = Len(questions) - 1
           /\ \A i \in DOMAIN questions : Selected(answers, questions[i].id) # <<>>)
              => ENABLED HandleFinishClick)
    /\ []((hist.cancelled /\ mounted) => ~showConfirmModal)

\* C24 witness: right after a cancel in a session of MaxQuestions questions,
\* still on the last question with all answered: the finish click is enabled.
CancelledAndFinishEnabled ==
    /\ hist.cancelled
    /\ mounted
    /\ Len(questions) = MaxQuestions
    /\ currentIdx = MaxQuestions - 1
    /\ ENABLED HandleFinishClick

\* C25: a step that changes the answers changes the selection of the current
\* question only and leaves the index, the modal, the countdown and the
\* emissions alone; a step that changes the index changes nothing of these
\* but the index.
SelectAndNavigateFrames ==
    /\ [][answers' # answers =>
            /\ \A i \in DOMAIN questions :
                   i # currentIdx + 1 =>
                       Selected(answers', questions[i].id) = Selected(answers, questions[i].id)
            /\ DOMAIN answers' \subseteq DOMAIN answers \cup {questions[currentIdx + 1].id}
            /\ UNCHANGED <<currentIdx, showConfirmModal, timeLeft, mounted, finishCalls,
                           exitCalls>>]_vars
    /\ [][currentIdx' # currentIdx =>
            UNCHANGED <<answers, showConfirmModal, timeLeft, mounted, finishCalls,
                        exitCalls>>]_vars

\* C25 witness: an option of the second question was just clicked while the
\* first question has a selection.
SelectedOnSecondQuestion ==
    /\ hist.last # <<>>
    /\ hist.last[1] = 1
    /\ currentIdx = 1
    /\ Selected(answers, questions[1].id) # <<>>
    /\ Selected(answers, questions[2].id) # <<>>

\* C26: every key of the answers is the id of a question of the session, every
\* selected option is one of that question's all_answers, and no option
\* occurs twice in a selection (the ids of the session are distinct).
AnswersWellFormed ==
    /\ DOMAIN answers \subseteq {questions[i].id : i \in DOMAIN questions}
    /\ \A i \in DOMAIN questions :
          LET sel == Selected(answers, questions[i].id)
          IN /\ Range(sel) \subseteq Range(questions[i].all_answers)
             /\ \A m, n \in DOMAIN sel : sel[m] = sel[n] => m = n
    /\ \A i, j \in DOMAIN questions : questions[i].id = questions[j].id => i = j

\* C26 witness: a multiple_choice question whose all_answers repeats an option
\* has every distinct option selected, in a session of MaxQuestions questions.
EveryOptionSelected ==
    /\ Len(questions) = MaxQuestions
    /\ \E i \in DOMAIN questions :
          /\ questions[i].question_type = "multiple_choice"
          /\ Len(questions[i].all_answers) > Cardinality(Range(questions[i].all_answers))
          /\ Range(Selected(answers, questions[i].id)) = Range(questions[i].all_answers)

\* ------------------------------------------------- further claims, the import
\* the data lines that parseCSV turns into a row and whose type, normalised, is
\* neither of the two types
RECURSIVE CountInvalidTypeLines(_)
CountInvalidTypeLines(lines) ==
    IF lines = <<>> THEN 0
    ELSE LET rows == RowsOfLine(Head(lines))
         IN (IF rows # <<>> /\ NormalizeType(rows[1].question_type)
                                  \notin {StrSingleChoice, StrMultipleChoice}
             THEN 1 ELSE 0) + CountInvalidTypeLines(Tail(lines))

\* C27: the skipped count of a run is the number of data lines of at least five
\* fields whose type is invalid; a line of fewer fields, a blank line, a row
\* without question text or without answers add nothing to it.
SkippedCountsInvalidTypesOnly ==
    [][importLog' # importLog =>
          LET run == importLog'[Len(importLog')]
          IN /\ run.skipped = CountInvalidTypeLines(DataLines(csvText))
             /\ run.skipped + Len(run.accepted) <= Len(DataLines(csvText))
             /\ csvText \in {JoinLines(<<HeaderLine, l>>) :
                                l \in {LineShort, LineBlank, LineNoQuestion, LineNoAnswers}}
                    => (run.skipped = 0 /\ run.accepted = <<>>)
             /\ csvText = JoinLines(<<HeaderLine, LineEssay, LineEssay>>) => run.skipped = 2
             /\ csvText = JoinLines(<<HeaderLine, LineEssay, LineShort>>) =>
                    (run.skipped = 1 /\ run.accepted = <<>>)]_vars

\* C27 witness: the file with an essay row and a line of three fields was
\* imported: one skipped, none accepted, two data lines.
SkippedFewerThanDataLines ==
    /\ csvText = JoinLines(<<HeaderLine, LineEssay, LineShort>>)
    /\ importLog # <<>>
    /\ importLog[1].skipped = 1
    /\ alerts # <<>>

\* a list of tokens as the split leaves it: no token is empty and none begins
\* or ends with a blank
TrimmedTokens(tokens) ==
    \A k \in DOMAIN tokens :
        /\ tokens[k] # <<>>
        /\ ~IsWhitespace(tokens[k][1])
        /\ ~IsWhitespace(tokens[k][Len(tokens[k])])

\* C28: every accepted candidate has a valid type, a question text and at
\* least one answer, its answers and correct answers being the trimmed,
\* non-empty tokens between the semicolons in their order; a row with a valid
\* type, a text and an answer is accepted, also with one answer only or with
\* no correct answer; a row without text, without answers or with another
\* type is not.
AcceptedIffTypeTextAndAnswer ==
    \A n \in DOMAIN importLog :
        LET accepted == importLog[n].accepted
        IN /\ \A k \in DOMAIN accepted :
                  /\ accepted[k].question_type \in {StrSingleChoice, StrMultipleChoice}
                  /\ accepted[k].question_text # <<>>
                  /\ accepted[k].all_answers # <<>>
                  /\ TrimmedTokens(accepted[k].all_answers)
                  /\ TrimmedTokens(accepted[k].correct_answers)
           /\ csvText = JoinLines(<<HeaderLine, LineNoCorrect>>) =>
                  /\ Len(accepted) = 1
                  /\ accepted[1].all_answers = <<<<"a">>, <<"b">>>>
                  /\ accepted[1].correct_answers = <<>>
           /\ csvText = JoinLines(<<HeaderLine, LineOneAnswer>>) =>
                  /\ Len(accepted) = 1
                  /\ accepted[1].all_answers = <<<<"a">>>>
           /\ csvText = JoinLines(<<HeaderLine, LineTwoCorrectSingle>>) =>
                  /\ Len(accepted) = 1
                  /\ accepted[1].correct_answers = <<<<"a">>, <<"b">>>>
           /\ csvText = JoinLines(<<HeaderLine, LineSit>>) =>
                  /\ Len(accepted) = 1
                  /\ accepted[1].all_answers =
                         <<<<"S", "i", "t", "z">>, <<"P", "l", "a", "t", "z">>,
                           <<"S", "t", "e", "h">>>>
           /\ csvText \in {JoinLines(<<HeaderLine, l>>) :
                              l \in {LineNoQuestion, LineNoAnswers, LineEssay,
                                     LineUpperUnderscore}}
                  => accepted = <<>>

\* C28 witness: the row whose answers are "a; b ;" and whose correct answers
\* are empty was accepted and handed to bulkInsertQuestions.
AcceptedWithoutCorrectAnswer ==
    /\ csvText = JoinLines(<<HeaderLine, LineNoCorrect>>)
    /\ bulkInsertCalls # <<>>
    /\ bulkInsertCalls[1][1].correct_answers = <<>>

\* the positions of a line that hold a comma after an even number of quotes
CommasOutsideQuotes(line) ==
    {j \in DOMAIN line :
        /\ line[j] = COMMA
        /\ Cardinality({k \in 1..(j - 1) : line[k] = QUOTE}) % 2 = 0}

RECURSIVE ConcatFields(_)
ConcatFields(fields) ==
    IF fields = <<>> THEN <<>> ELSE Head(fields) \o ConcatFields(Tail(fields))

\* the characters of a line that are neither a quote nor a comma outside quotes
KeptCharacters(line) ==
    LET commas == CommasOutsideQuotes(line)
        Kept(p) == p[2] # QUOTE /\ p[1] \notin commas
        kept == SelectSeq([j \in DOMAIN line |-> <<j, line[j]>>], Kept)
    IN [n \in DOMAIN kept |-> kept[n][2]]

\* C29: for every data line of an imported file, the fields the tokenizer
\* makes of the trimmed line are one more than its commas outside quotes, and
\* together they hold, in order, every character of the line but the quotes
\* and those commas; a comma inside quotes stays in its field.
TokenizerTwoStateMachine ==
    [][importLog' # importLog =>
          /\ \A lines \in {DataLines(csvText)} :
                 \A i \in DOMAIN lines :
                     \A line \in {Trim(lines[i])} :
                         \A fields \in {Tokenize(line)} :
                             /\ Len(fields) = Cardinality(CommasOutsideQuotes(line)) + 1
                             /\ ConcatFields(fields) = KeptCharacters(line)
          /\ Len(Tokenize(LineQuotedComma)) = 5
          /\ Tokenize(LineQuotedComma)[1] =
                 <<"S", "i", "t", ",", " ", "b", "i", "t", "t", "e">>
          /\ Len(Tokenize(LineOpenQuote)) = 1]_vars

\* C29 witness: the row whose question is "Sit, bitte" in quotes was imported
\* with the comma in its question text.
QuotedCommaImported ==
    /\ csvText = JoinLines(<<HeaderLine, LineQuotedComma>>)
    /\ bulkInsertCalls # <<>>
    /\ bulkInsertCalls[1][1].question_text =
           <<"S", "i", "t", ",", " ", "b", "i", "t", "t", "e">>

\* what a run of the import yields when the first line of the text is replaced
\* by the header
WithHeaderForFirstLine(text) == JoinLines(<<HeaderLine>> \o DataLines(text))

\* a run of reader.onload on this text has ended in the empty-batch error
EndsInEmptyBatchError ==
    /\ Len(alerts') = Len(alerts) + 1
    /\ alerts'[Len(alerts')].kind = "error"
    /\ alerts'[Len(alerts')].message \in {MsgAllSkipped, MsgNoValid}
    /\ bulkInsertCalls' = bulkInsertCalls

\* C30 (as claimed): a run yields what it yields when the first line is
\* replaced by the header, so the first line gives no candidate and no skip,
\* be it a well-formed row or a row of invalid type; and a run on a text of one
\* line ends in the empty-batch error.
FirstLineDiscardedOneLineFails ==
    [][reading' = reading - 1 =>
          /\ importLog' # importLog =>
                 /\ importLog'[Len(importLog')] = ImportOf(WithHeaderForFirstLine(csvText))
                 /\ csvText = LineSit =>
                        importLog'[Len(importLog')] = [accepted |-> <<>>, skipped |-> 0]
                 /\ csvText = LineEssay =>
                        importLog'[Len(importLog')] = [accepted |-> <<>>, skipped |-> 0]
                 /\ csvText = JoinLines(<<LineEssay, LineSit>>) =>
                        /\ Len(importLog'[Len(importLog')].accepted) = 1
                        /\ importLog'[Len(importLog')].skipped = 0
                 /\ csvText = JoinLines(<<LineEssay, LineEssay>>) =>
                        importLog'[Len(importLog')].skipped = 1
          /\ Len(Split(csvText, NEWLINE)) = 1 => EndsInEmptyBatchError]_vars

\* the part of C30 that the code keeps: the same, the text of no character
\* left out of the texts of one line
FirstLineDiscardedOneLineFailsNonEmptyFile ==
    [][reading' = reading - 1 =>
          /\ importLog' # importLog =>
                 /\ importLog'[Len(importLog')] = ImportOf(WithHeaderForFirstLine(csvText))
                 /\ csvText = LineSit =>
                        importLog'[Len(importLog')] = [accepted |-> <<>>, skipped |-> 0]
                 /\ csvText = LineEssay =>
                        importLog'[Len(importLog')] = [accepted |-> <<>>, skipped |-> 0]
                 /\ csvText = JoinLines(<<LineEssay, LineSit>>) =>
                        /\ Len(importLog'[Len(importLog')].accepted) = 1
                        /\ importLog'[Len(importLog')].skipped = 0
                 /\ csvText = JoinLines(<<LineEssay, LineEssay>>) =>
                        importLog'[Len(importLog')].skipped = 1
          /\ (csvText # <<>> /\ Len(Split(csvText, NEWLINE)) = 1) =>
                 EndsInEmptyBatchError]_vars

====
